---- MODULE Spec2Model ----
(***************************************************************************)
(* Model of src/src/ring.rs: the Ring constructors for the Ed25519 and the *)
(* secp256k1 curve, Ring::size, and the RingSignature accessors.           *)
(*                                                                         *)
(* A BigInteger256 is a natural number in 0..MaxScalar.  A curve point is  *)
(* a record [curve, dlog]: the point generator * dlog of that curve, with  *)
(* dlog reduced modulo the order of the generator, so that a non-zero      *)
(* BigInteger256 that is a multiple of the order gives the identity.       *)
(* A Vec is a sequence; a panic (failed assert!, out-of-bounds index,      *)
(* copy_from_slice length mismatch) is the result Panicked.                *)
(***************************************************************************)
EXTENDS Integers, Sequences, FiniteSets

VARIABLES call, ret, rings, sig, view, eqArgs, eqRet

vars == <<call, ret, rings, sig, view, eqArgs, eqRet>>

\* ---------------------------------------------------------------- bounds
MaxScalar == 3
OrderEd == 2
OrderSecp == 3
MaxRingSize == 2
MaxPubs == 2
MaxSigRing == 2
MaxSigScalar == 1
MaxVals == 2
MaxRings == 2

\* ---------------------------------------------------------------- curves
Curves == {"Ed25519", "Secp256k1"}

Order(c) == IF c = "Ed25519" THEN OrderEd ELSE OrderSecp

Scalars == 0..MaxScalar

Points(c) == [curve : {c}, dlog : 0..(Order(c) - 1)]

\* BigInteger::is_zero
is_zero(b) == b = 0

\* C::GENERATOR.mul_bigint(k).into_affine()
mul_bigint(c, k) == [curve |-> c, dlog |-> k % Order(c)]

Identity(c) == mul_bigint(c, 0)

\* ---------------------------------------------------------------- Vec
Panicked == [ok |-> FALSE, keys |-> <<>>]

Returned(v) == [ok |-> TRUE, keys |-> v]

\* Vec::with_capacity(n): an empty vector, whatever the capacity
with_capacity(n) == Returned(<<>>)

\* Vec::push
push(r, x) == IF r.ok THEN Returned(Append(r.keys, x)) ELSE Panicked

\* slice::swap(a, b), zero-based; panics when a or b is out of bounds
swap(r, a, b) ==
  IF ~r.ok THEN Panicked
  ELSE IF a < 0 \/ b < 0 \/ a >= Len(r.keys) \/ b >= Len(r.keys) THEN Panicked
  ELSE Returned([i \in 1..Len(r.keys) |->
                   IF i = a + 1 THEN r.keys[b + 1]
                   ELSE IF i = b + 1 THEN r.keys[a + 1]
                   ELSE r.keys[i]])

\* &pubs[a..b], zero-based half-open; panics when a > b or b > len
slice(s, a, b) ==
  IF a > b \/ b > Len(s) THEN Panicked
  ELSE Returned([i \in 1..(b - a) |-> s[a + i]])

\* dst.copy_from_slice(src): panics unless the two lengths are equal
copy_from_slice(r, src) ==
  IF ~r.ok \/ ~src.ok THEN Panicked
  ELSE IF Len(r.keys) # Len(src.keys) THEN Panicked
  ELSE Returned(src.keys)

\* v[i] = x, zero-based; panics when i >= len
index_assign(r, i, x) ==
  IF ~r.ok THEN Panicked
  ELSE IF i >= Len(r.keys) THEN Panicked
  ELSE Returned([r.keys EXCEPT ![i + 1] = x])

\* Ring::size
size(r) == Len(r.keys)

\* ---------------------------------------------------------------- Ring
\* draws[i] is the i-th value BigInteger256::rand returns
\* new without the assert on the private key
new_Ed25519_unchecked_key(ring_size, private_key, index, draws) ==
  IF ~(index < ring_size) THEN Panicked
  ELSE LET public_key == mul_bigint("Ed25519", private_key)
           public_keys0 == [i \in 1..ring_size |-> mul_bigint("Ed25519", draws[i])]
           public_keys1 == push(Returned(public_keys0), public_key)
       IN  swap(public_keys1, index, ring_size - 1)

new_Ed25519(ring_size, private_key, index, draws) ==
  IF ~(index < ring_size) THEN Panicked
  ELSE IF is_zero(private_key) THEN Panicked
  ELSE LET public_key == mul_bigint("Ed25519", private_key)
           public_keys0 == [i \in 1..ring_size |-> mul_bigint("Ed25519", draws[i])]
           public_keys1 == push(Returned(public_keys0), public_key)
       IN  swap(public_keys1, index, ring_size - 1)

\* new sampling ring_size - 1 decoys, on this curve only
new_Secp256k1_fewer_decoys(ring_size, private_key, index, draws) ==
  IF ~(index < ring_size) THEN Panicked
  ELSE IF is_zero(private_key) THEN Panicked
  ELSE LET public_key == mul_bigint("Secp256k1", private_key)
           public_keys0 == [i \in 1..(ring_size - 1) |-> mul_bigint("Secp256k1", draws[i])]
           public_keys1 == push(Returned(public_keys0), public_key)
       IN  swap(public_keys1, index, ring_size - 1)

new_Secp256k1(ring_size, private_key, index, draws) ==
  IF ~(index < ring_size) THEN Panicked
  ELSE IF is_zero(private_key) THEN Panicked
  ELSE LET public_key == mul_bigint("Secp256k1", private_key)
           public_keys0 == [i \in 1..ring_size |-> mul_bigint("Secp256k1", draws[i])]
           public_keys1 == push(Returned(public_keys0), public_key)
       IN  swap(public_keys1, index, ring_size - 1)

from_pubkeys_Ed25519(pubs, private_key, index) ==
  LET sz == Len(pubs) + 1 IN
  IF is_zero(private_key) THEN Panicked
  ELSE IF ~(index < sz) THEN Panicked
  ELSE LET ring0 == with_capacity(sz)
           public_key == mul_bigint("Ed25519", private_key)
           ring1 == copy_from_slice(ring0, slice(pubs, 0, index))
           ring2 == index_assign(ring1, index, public_key)
           ring3 == copy_from_slice(ring2, slice(pubs, index + 1, Len(pubs)))
       IN  ring3

from_pubkeys_Secp256k1(pubs, private_key, index) ==
  LET sz == Len(pubs) + 1 IN
  IF is_zero(private_key) THEN Panicked
  ELSE IF ~(index < sz) THEN Panicked
  ELSE LET ring0 == with_capacity(sz)
           public_key == mul_bigint("Secp256k1", private_key)
           ring1 == index_assign(ring0, index, public_key)
           ring2 == copy_from_slice(ring1, slice(pubs, 0, index))
           ring3 == copy_from_slice(ring2, slice(pubs, index + 1, Len(pubs)))
       IN  ring3

\* from_fixed_pubkeys storing the keys in reverse order
from_fixed_pubkeys_Ed25519_reversed(public_keys) ==
  IF ~(Len(public_keys) > 0) THEN Panicked
  ELSE Returned([i \in 1..Len(public_keys) |->
                   public_keys[Len(public_keys) + 1 - i]])

from_fixed_pubkeys_Ed25519(public_keys) ==
  IF ~(Len(public_keys) > 0) THEN Panicked ELSE Returned(public_keys)

\* from_fixed_pubkeys without the assert on the length
from_fixed_pubkeys_Secp256k1_unchecked(public_keys) == Returned(public_keys)

from_fixed_pubkeys_Secp256k1(public_keys) ==
  IF ~(Len(public_keys) > 0) THEN Panicked ELSE Returned(public_keys)

\* dispatch on the type parameters of Ring<P, C>
new(c, ring_size, private_key, index, draws) ==
  IF c = "Ed25519" THEN new_Ed25519(ring_size, private_key, index, draws)
  ELSE new_Secp256k1(ring_size, private_key, index, draws)

from_pubkeys(c, pubs, private_key, index) ==
  IF c = "Ed25519" THEN from_pubkeys_Ed25519(pubs, private_key, index)
  ELSE from_pubkeys_Secp256k1(pubs, private_key, index)

from_fixed_pubkeys(c, public_keys) ==
  IF c = "Ed25519" THEN from_fixed_pubkeys_Ed25519(public_keys)
  ELSE from_fixed_pubkeys_Secp256k1(public_keys)

\* ------------------------------------------------- inputs of the model
SeqsUpTo(S, n) == UNION {[1..k -> S] : k \in 0..n}

RingSizes == 0..MaxRingSize

Indices == 0..(MaxRingSize + 1)

NoCall == [op |-> "none", curve |-> "Ed25519", ring_size |-> 0,
           private_key |-> 0, index |-> 0, pubs |-> <<>>, draws |-> <<>>]

NoSig == [ring |-> 0, challenge |-> 0, ring_sig_vals |-> <<>>,
          image |-> Identity("Ed25519")]

NoView == [op |-> "none", keys |-> <<>>, ring |-> 0]

NoArgs == [op |-> "none", ring_size |-> 0, private_key |-> 0, index |-> 0,
           scalars |-> <<>>]

NotRun == [op |-> "none", ok |-> FALSE, keys |-> <<>>]

\* ------------------------------------------- Spec: the Ring constructors
Init ==
  /\ call = NoCall
  /\ ret = Panicked
  /\ rings = <<>>
  /\ sig = NoSig
  /\ view = NoView
  /\ eqArgs = NoArgs
  /\ eqRet = [c \in Curves |-> NotRun]

\* draws is what thread_rng yields to the ring_size closures of the map
New(c) ==
  /\ call.op = "none"
  /\ \E ring_size \in RingSizes, private_key \in Scalars, index \in Indices :
      \E draws \in [1..ring_size -> Scalars] :
        /\ call' = [op |-> "new", curve |-> c, ring_size |-> ring_size,
                    private_key |-> private_key, index |-> index,
                    pubs |-> <<>>, draws |-> draws]
        /\ ret' = new(c, ring_size, private_key, index, draws)
        /\ UNCHANGED <<rings, sig, view, eqArgs, eqRet>>

FromPubkeys(c) ==
  /\ call.op = "none"
  /\ \E pubs \in SeqsUpTo(Points(c), MaxPubs), private_key \in Scalars,
        index \in Indices :
      /\ call' = [op |-> "from_pubkeys", curve |-> c,
                  ring_size |-> Len(pubs) + 1,
                  private_key |-> private_key, index |-> index,
                  pubs |-> pubs, draws |-> <<>>]
      /\ ret' = from_pubkeys(c, pubs, private_key, index)
      /\ UNCHANGED <<rings, sig, view, eqArgs, eqRet>>

FromFixedPubkeys(c) ==
  /\ call.op = "none"
  /\ \E public_keys \in SeqsUpTo(Points(c), MaxPubs) :
      /\ call' = [op |-> "from_fixed_pubkeys", curve |-> c,
                  ring_size |-> 0, private_key |-> 0, index |-> 0,
                  pubs |-> public_keys, draws |-> <<>>]
      /\ ret' = from_fixed_pubkeys(c, public_keys)
      /\ UNCHANGED <<rings, sig, view, eqArgs, eqRet>>

\* the caller's scope ends: the result of the call is dropped
Drop ==
  /\ call.op # "none"
  /\ call' = NoCall
  /\ ret' = Panicked
  /\ UNCHANGED <<rings, sig, view, eqArgs, eqRet>>

Next ==
  \/ \E c \in Curves : New(c)
  \/ \E c \in Curves : FromPubkeys(c)
  \/ \E c \in Curves : FromFixedPubkeys(c)
  \/ Drop

Spec == Init /\ [][Next]_vars

\* ------------------------------------------------ SpecSig: RingSignature
\* rings is the caller's arena of Rings, each one buildable by
\* from_fixed_pubkeys; sig.ring is the borrow &'a Ring as an index into it
RingsOf(c) == [curve : {c}, keys : SeqsUpTo(Points(c), MaxSigRing) \ {<<>>}]

SigScalars == 0..MaxSigScalar

\* public_keys reading the first Ring of the arena, not the borrowed one
public_keys_first_ring(s, rs) == rs[1].keys

\* RingSignature::public_keys
public_keys(s, rs) == rs[s.ring].keys

\* RingSignature::ring
ring(s) == s.ring

InitSig ==
  /\ call = NoCall
  /\ ret = Panicked
  /\ \E c \in Curves : rings \in [1..MaxRings -> RingsOf(c)]
  /\ sig = NoSig
  /\ view = NoView
  /\ eqArgs = NoArgs
  /\ eqRet = [c \in Curves |-> NotRun]

\* RingSignature { ring, challenge, ring_sig_vals, image, curve }: all the
\* fields are pub, the value is built as a plain aggregate
BuildSignature ==
  /\ sig = NoSig
  /\ \E r \in 1..Len(rings), challenge \in SigScalars,
        ring_sig_vals \in SeqsUpTo(SigScalars, MaxVals),
        image \in Points(rings[1].curve) :
       sig' = [ring |-> r, challenge |-> challenge,
               ring_sig_vals |-> ring_sig_vals, image |-> image]
  /\ UNCHANGED <<call, ret, rings, view, eqArgs, eqRet>>

PublicKeys ==
  /\ sig # NoSig
  /\ view' = [op |-> "public_keys", keys |-> public_keys(sig, rings), ring |-> 0]
  /\ UNCHANGED <<call, ret, rings, sig, eqArgs, eqRet>>

RingRef ==
  /\ sig # NoSig
  /\ view' = [op |-> "ring", keys |-> <<>>, ring |-> ring(sig)]
  /\ UNCHANGED <<call, ret, rings, sig, eqArgs, eqRet>>

\* the signature goes out of scope, and every view borrowed from it with it
DropSignature ==
  /\ sig # NoSig
  /\ sig' = NoSig
  /\ view' = NoView
  /\ UNCHANGED <<call, ret, rings, eqArgs, eqRet>>

NextSig ==
  \/ BuildSignature
  \/ PublicKeys
  \/ RingRef
  \/ DropSignature

SpecSig == InitSig /\ [][NextSig]_vars

\* -------------------------- SpecEquiv: the two curves on the same input
\* an abstract input: the operation, its integers, and the scalars whose
\* public keys are the decoys drawn (new) or the keys supplied (the others)
AbstractArgs ==
  [op : {"new"}, ring_size : RingSizes, private_key : Scalars,
   index : Indices, scalars : [1..MaxRingSize -> Scalars]]
  \cup
  [op : {"from_pubkeys"}, ring_size : {0}, private_key : Scalars,
   index : Indices, scalars : SeqsUpTo(Scalars, MaxPubs)]
  \cup
  [op : {"from_fixed_pubkeys"}, ring_size : {0}, private_key : {0},
   index : {0}, scalars : SeqsUpTo(Scalars, MaxPubs)]

KeysOf(c, scalars) == [i \in 1..Len(scalars) |-> mul_bigint(c, scalars[i])]

Apply(c, a) ==
  LET r == IF a.op = "new"
             THEN new(c, a.ring_size, a.private_key, a.index, a.scalars)
           ELSE IF a.op = "from_pubkeys"
             THEN from_pubkeys(c, KeysOf(c, a.scalars), a.private_key, a.index)
           ELSE from_fixed_pubkeys(c, KeysOf(c, a.scalars))
  IN  [op |-> a.op, ok |-> r.ok, keys |-> r.keys]

InitEquiv ==
  /\ call = NoCall
  /\ ret = Panicked
  /\ rings = <<>>
  /\ sig = NoSig
  /\ view = NoView
  /\ eqArgs \in AbstractArgs
  /\ eqRet = [c \in Curves |-> NotRun]

RunEd25519 ==
  /\ eqRet["Ed25519"] = NotRun
  /\ eqRet' = [eqRet EXCEPT !["Ed25519"] = Apply("Ed25519", eqArgs)]
  /\ UNCHANGED <<call, ret, rings, sig, view, eqArgs>>

RunSecp256k1 ==
  /\ eqRet["Secp256k1"] = NotRun
  /\ eqRet' = [eqRet EXCEPT !["Secp256k1"] = Apply("Secp256k1", eqArgs)]
  /\ UNCHANGED <<call, ret, rings, sig, view, eqArgs>>

NextEquiv ==
  \/ RunEd25519
  \/ RunSecp256k1

SpecEquiv == InitEquiv /\ [][NextEquiv]_vars

\* ------------------------------------------------------------- claims
RealKey == mul_bigint(call.curve, call.private_key)

ValidNewCall ==
  /\ call.op = "new"
  /\ call.ring_size >= 2
  /\ ~is_zero(call.private_key)
  /\ call.index < call.ring_size

\* C1: for ring_size >= 2, a non-zero private_key and index < ring_size,
\* Ring::new returns a Ring whose size() equals ring_size, on both curves.
C1_NewSizeIsRingSize ==
  ValidNewCall => (ret.ok /\ size(ret) = call.ring_size)

\* C2: for ring_size >= 2, a non-zero private_key and index < ring_size
\* (index = ring_size - 1 included), the Ring returned by Ring::new holds
\* generator() * private_key at position index.
C2_RealKeyAtIndex ==
  ValidNewCall =>
    /\ ret.ok
    /\ call.index < size(ret)
    /\ ret.keys[call.index + 1] = RealKey

\* the foreign keys of the result: its entries other than the one at index
WithoutIndex(keys, i) ==
  [k \in 1..(Len(keys) - 1) |-> IF k <= i THEN keys[k] ELSE keys[k + 1]]

\* C3: for pubs of length n, a non-zero private_key and 0 <= i <= n,
\* from_pubkeys returns a Ring of length n + 1 with generator() * private_key
\* at position i and the other n positions equal to pubs, in order.
C3_FromPubkeysInserts ==
  (/\ call.op = "from_pubkeys"
   /\ ~is_zero(call.private_key)
   /\ call.index <= Len(call.pubs))
  =>
    /\ ret.ok
    /\ size(ret) = Len(call.pubs) + 1
    /\ ret.keys[call.index + 1] = RealKey
    /\ WithoutIndex(ret.keys, call.index) = call.pubs

\* C4: Ring::new and Ring::from_pubkeys return no Ring when index >= ring_size
\* (ring_size = pubs.len() + 1 for from_pubkeys) or private_key is zero.
C4_PreconditionsRejected ==
  (/\ call.op \in {"new", "from_pubkeys"}
   /\ (call.index >= call.ring_size \/ is_zero(call.private_key)))
  => ~ret.ok

C4_Witness ==
  /\ call.op = "new"
  /\ is_zero(call.private_key)
  /\ call.ring_size >= 2
  /\ call.index < call.ring_size
  /\ ~ret.ok

\* C5: for a non-empty public_keys, from_fixed_pubkeys returns a Ring whose
\* size() is the input length and whose keys are the input, in order.
C5_FromFixedIsIdentity ==
  (call.op = "from_fixed_pubkeys" /\ Len(call.pubs) > 0)
  =>
    /\ ret.ok
    /\ size(ret) = Len(call.pubs)
    /\ ret.keys = call.pubs

C5_Witness ==
  /\ call.op = "from_fixed_pubkeys"
  /\ Len(call.pubs) = 2
  /\ call.pubs[1] # call.pubs[2]
  /\ ret.ok

\* C6: from_fixed_pubkeys returns no Ring for an empty input, so it never
\* returns a Ring of size 0.
C6_EmptyRingRejected ==
  call.op = "from_fixed_pubkeys" =>
    /\ (Len(call.pubs) = 0 => ~ret.ok)
    /\ (ret.ok => size(ret) > 0)

C6_Witness ==
  /\ call.op = "from_fixed_pubkeys"
  /\ call.pubs = <<>>
  /\ ~ret.ok

\* C7: public_keys() returns the key sequence of the Ring the signature
\* references, ring() returns that Ring, and a step that produces either
\* leaves the Rings and the signature as they were.
C7_AccessorsReadTheRing ==
  /\ [](/\ (view.op = "public_keys" => view.keys = rings[sig.ring].keys)
        /\ (view.op = "ring" => view.ring = sig.ring))
  /\ [][view'.op \in {"public_keys", "ring"} => (rings' = rings /\ sig' = sig)]_vars

C7_Witness ==
  /\ view.op = "public_keys"
  /\ sig.ring = 2
  /\ rings[1].keys # rings[2].keys
  /\ Len(view.keys) = 2

\* C8: every RingSignature that can be built has as many ring_sig_vals as
\* its Ring has members.
C8_OneResponsePerMember ==
  sig # NoSig => Len(sig.ring_sig_vals) = size(rings[sig.ring])

\* C9: Ring::new samples ring_size - 1 decoys and rejects a zero draw: the
\* returned Ring has ring_size - 1 entries beside the real key and no entry
\* is the identity point.
C9_DecoysNonZero ==
  (call.op = "new" /\ ret.ok) =>
    /\ size(ret) - 1 = call.ring_size - 1
    /\ \A i \in 1..size(ret) : ret.keys[i] # Identity(call.curve)

\* the scalars whose public keys can appear in the result
Sources(a) ==
  IF a.op = "from_fixed_pubkeys" THEN a.scalars
  ELSE Append(a.scalars, a.private_key)

SameOutcome(e, s, a) ==
  /\ e.ok = s.ok
  /\ e.ok =>
       /\ Len(e.keys) = Len(s.keys)
       /\ \A i \in 1..Len(e.keys) :
            \E j \in 1..Len(Sources(a)) :
              /\ e.keys[i] = mul_bigint("Ed25519", Sources(a)[j])
              /\ s.keys[i] = mul_bigint("Secp256k1", Sources(a)[j])

\* C10: on the same abstract input the Ed25519 and the secp256k1
\* constructors both fail, or both return Rings of the same size holding
\* the public key of the same scalar at every position.
C10_CurvesAgree ==
  (eqRet["Ed25519"] # NotRun /\ eqRet["Secp256k1"] # NotRun)
  => SameOutcome(eqRet["Ed25519"], eqRet["Secp256k1"], eqArgs)

C10_Witness ==
  /\ eqArgs.op = "new"
  /\ eqRet["Ed25519"].op = "new"
  /\ eqRet["Secp256k1"].op = "new"
  /\ eqRet["Ed25519"].ok
  /\ eqRet["Secp256k1"].ok
  /\ eqArgs.index = 0
  /\ eqArgs.ring_size = 2

====
